---- MODULE Spec2Model ----
(***************************************************************************)
(* Model of ndc-client/src/apis/default_api.rs: the five connector         *)
(* operations (capabilities_get, explain_post, mutation_post, query_post,  *)
(* schema_get), append_path, inject_trace_context and the error tracing    *)
(* helpers of mod utils.  One call of one operation is modelled statement  *)
(* by statement; the configuration, the caller's tracing context and the   *)
(* transport's answers are drawn from bounded sets.                        *)
(***************************************************************************)
EXTENDS Integers, Sequences, FiniteSets, TLC

(* ------------------------------------------------------------------ *)
(* Bounds                                                               *)
(* ------------------------------------------------------------------ *)

\* longest path string of a configured base URL, in characters
MaxPathLen == 3

(* ------------------------------------------------------------------ *)
(* URLs.  A hierarchical URL is its origin ("http://host", the same in  *)
(* every URL of the model) followed by a path string; a string is a     *)
(* sequence of characters, "/" the separator.  An opaque URL            *)
(* ("mailto:x") cannot be a base.                                       *)
(* ------------------------------------------------------------------ *)

PathChars == {"/", "a"}

RECURSIVE StringsUpTo(_)
StringsUpTo(n) ==
    IF n = 0 THEN {<<>>}
    ELSE LET shorter == StringsUpTo(n - 1)
         IN  shorter \cup {Append(s, c) : s \in {t \in shorter : Len(t) = n - 1}, c \in PathChars}

\* the text after the origin of a hierarchical URL: empty, or starting with "/"
BaseTexts == {s \in StringsUpTo(MaxPathLen) : s = <<>> \/ Head(s) = "/"}

\* Url::parse on origin \o text: an empty path of an http URL is stored as "/"
UrlParse(text) == [opaque |-> FALSE, path |-> IF text = <<>> THEN <<"/">> ELSE text]

OpaqueUrl == [opaque |-> TRUE, path |-> <<>>]

\* Url::as_str without the origin
UrlText(url) == url.path

RECURSIVE SplitSlash(_)
\* str::split('/'): the segments of a string between separators, at least one
SplitSlash(s) ==
    IF \A i \in DOMAIN s : s[i] # "/" THEN <<s>>
    ELSE LET k == CHOOSE i \in DOMAIN s : s[i] = "/" /\ \A j \in 1..(i - 1) : s[j] # "/"
         IN  <<SubSeq(s, 1, k - 1)>> \o SplitSlash(SubSeq(s, k + 1, Len(s)))

RECURSIVE JoinSlash(_)
\* the path string of a list of segments: "/" before each segment
JoinSlash(segs) ==
    IF segs = <<>> THEN <<>>
    ELSE <<"/">> \o Head(segs) \o JoinSlash(Tail(segs))

\* Url::path_segments: None for a cannot-be-a-base URL, else the path after
\* its leading "/" split at "/"
path_segments(url) ==
    IF url.opaque THEN [some |-> FALSE, segs |-> <<>>]
    ELSE [some |-> TRUE, segs |-> SplitSlash(Tail(url.path))]

\* PathSegmentsMut::push: a separator is written unless the path is just "/"
push_segment(url, seg) ==
    [url EXCEPT !.path = IF Len(url.path) > 1 THEN url.path \o <<"/">> \o seg
                         ELSE url.path \o seg]

\* Url::join with a relative path of one segment: the base's last segment is
\* replaced; a cannot-be-a-base URL has nothing to resolve against
url_join(url, rel) ==
    IF url.opaque
    THEN [ok |-> FALSE, url |-> url, err |-> "URLParseError"]
    ELSE LET segs == path_segments(url).segs
             kept == SubSeq(segs, 1, Len(segs) - 1)
         IN  [ok  |-> TRUE,
              url |-> [url EXCEPT !.path = JoinSlash(Append(kept, rel))],
              err |-> ""]

\* append_path without the trailing-slash step: the base is joined as it is
append_path_no_slash(url, path) == url_join(url, path)

append_path(url, path) ==
    LET ps == path_segments(url)
    IN  IF ps.some /\ ps.segs[Len(ps.segs)] # <<>>
        THEN url_join(push_segment(url, <<>>), path)
        ELSE url_join(url, path)

(* ------------------------------------------------------------------ *)
(* Operations                                                           *)
(* ------------------------------------------------------------------ *)

Ops == {"capabilities_get", "explain_post", "mutation_post", "query_post", "schema_get"}

GetOps == {"capabilities_get", "schema_get"}

Method(o) == IF o \in GetOps THEN "GET" ELSE "POST"

\* the path handed to append_path, one segment
Suffix(o) ==
    CASE o = "capabilities_get" -> <<"capabilities">>
      [] o = "explain_post"     -> <<"explain">>
      [] o = "mutation_post"    -> <<"mutation">>
      [] o = "query_post"       -> <<"query">>
      [] o = "schema_get"       -> <<"schema">>

\* the type the body of a non-error response is decoded into
ResponseType(o) ==
    CASE o = "capabilities_get" -> "CapabilitiesResponse"
      [] o = "explain_post"     -> "ExplainResponse"
      [] o = "mutation_post"    -> "MutationResponse"
      [] o = "query_post"       -> "QueryResponse"
      [] o = "schema_get"       -> "SchemaResponse"

\* the request payload of a POST operation
RequestType(o) == IF o = "mutation_post" THEN "MutationRequest" ELSE "QueryRequest"

\* the statements of an operation's async block, in source order
Program(o) ==
    IF o \in GetOps
    THEN <<"append_path", "request", "inject_trace_context", "user_agent", "headers",
           "build", "execute", "json_body", "classify">>
    ELSE <<"append_path", "request", "user_agent", "headers", "json",
           "inject_trace_context", "build", "execute", "json_body", "classify">>

StmtIndex(o, s) == CHOOSE i \in DOMAIN Program(o) : Program(o)[i] = s

NextStmt(o, s) ==
    IF StmtIndex(o, s) = Len(Program(o)) THEN "done" ELSE Program(o)[StmtIndex(o, s) + 1]

(* ------------------------------------------------------------------ *)
(* Results and errors                                                   *)
(* ------------------------------------------------------------------ *)

NoValue == [type |-> "", status |-> 0, kind |-> "", payload |-> ""]

NoError == [kind |-> "", status |-> 0, error_response |-> NoValue]

Ok(v) == [ok |-> TRUE, value |-> v, err |-> NoError]

Err(e) == [ok |-> FALSE, value |-> NoValue, err |-> e]

\* the variants of super::Error the operations construct
ErrorOf(kind) == [kind |-> kind, status |-> 0, error_response |-> NoValue]

ConnectorError(status, error_response) ==
    [kind |-> "ConnectorError", status |-> status, error_response |-> error_response]

(* ------------------------------------------------------------------ *)
(* Responses                                                            *)
(* ------------------------------------------------------------------ *)

StatusCodes == {100, 200, 399, 400, 499, 500, 599}

is_client_error(status) == 400 <= status /\ status < 500

\* is_server_error with its lower limit off by one
is_server_error_above_500(status) == 500 < status /\ status < 600

is_server_error(status) == 500 <= status /\ status < 600

\* what a response body is: not JSON at all, or JSON that fits the
\* operation's response type, the ErrorResponse envelope, both or neither
BodyKinds == {"notjson", "success", "envelope", "both", "other"}

Bodies == [kind : BodyKinds, payload : {"p"}]

\* serde_json::from_value::<T>(body), T the operation's response type or
\* "ErrorResponse"
from_value(body, type) ==
    LET fits == IF type = "ErrorResponse" THEN body.kind \in {"envelope", "both"}
                ELSE body.kind \in {"success", "both"}
    IN  IF fits
        THEN Ok([type |-> type, status |-> 0, kind |-> body.kind, payload |-> body.payload])
        ELSE Err(ErrorOf("Serde"))

\* the outcomes of client.execute(req).await
TransportResults ==
    {Err(ErrorOf("Reqwest(transport)"))}
    \cup {Ok([type |-> "Response", status |-> s, kind |-> b.kind, payload |-> b.payload]) :
            s \in StatusCodes, b \in Bodies}

\* resp.json().await: the body parsed as a JSON value
resp_json(response) ==
    IF response.kind = "notjson" THEN Err(ErrorOf("Reqwest(decode)"))
    ELSE Ok([type |-> "Value", status |-> 0, kind |-> response.kind,
             payload |-> response.payload])

(* ------------------------------------------------------------------ *)
(* Headers and the request builder                                      *)
(* ------------------------------------------------------------------ *)

HeaderNames == {"user-agent", "traceparent", "content-type", "x-api-key"}

\* the names configuration.headers may hold
StaticNames == {"user-agent", "traceparent", "x-api-key"}

\* the values one name carries in a HeaderMap: none or one, and none or two
\* for one of the names
StaticValueLists(n) ==
    IF n = "traceparent" THEN {<<>>, <<"s1", "s2">>} ELSE {<<>>, <<"s1">>}

\* configuration.headers: a HeaderMap, a list of values per name
StaticHeaderMaps ==
    {m \in [HeaderNames -> {<<>>, <<"s1">>, <<"s1", "s2">>}] :
        \A n \in HeaderNames :
            /\ m[n] \in StaticValueLists(n)
            /\ n \notin StaticNames => m[n] = <<>>}

EmptyHeaders == [n \in HeaderNames |-> <<>>]

\* configuration.user_agent: None, a string, or a string no header value can hold
UserAgents == {"None", "ndc-client/1", "bad\n"}

ValidHeaderValue(v) == v # "bad\n"

\* header_append as HeaderMap::insert: the value takes the place of those the
\* name already has
header_insert(hs, k, v) == [hs EXCEPT ![k] = <<v>>]

\* HeaderMap::append under RequestBuilder::header: the value is added after
\* those the name already has
header_append(hs, k, v) == [hs EXCEPT ![k] = Append(@, v)]

\* RequestBuilder::header: no effect on a builder that already failed, a
\* builder error for a value that is no header value
header(b, k, v) ==
    IF ~b.ok THEN b
    ELSE IF ~ValidHeaderValue(v) THEN [b EXCEPT !.ok = FALSE]
    ELSE [b EXCEPT !.headers = header_append(@, k, v)]

\* RequestBuilder::headers, "merged in to any already set": each name of the
\* map takes the map's values in place of those it had
replace_headers(dst, src) == [n \in HeaderNames |-> IF src[n] # <<>> THEN src[n] ELSE dst[n]]

headers(b, map) ==
    IF ~b.ok THEN b ELSE [b EXCEPT !.headers = replace_headers(@, map)]

\* RequestBuilder::json: the body, and a content type unless one is set
json(b, payload) ==
    IF ~b.ok THEN b
    ELSE [b EXCEPT !.headers = IF @["content-type"] = <<>>
                                 THEN [@ EXCEPT !["content-type"] = <<"application/json">>]
                                 ELSE @,
                   !.body = payload]

(* ------------------------------------------------------------------ *)
(* Tracing                                                              *)
(* ------------------------------------------------------------------ *)

\* a context is the span it holds: none, the caller's span, or the span the
\* operation opens with in_span
Spans == {"caller", "op"}

AmbientContexts == {"none", "caller"}

\* the global text map propagator: the default (no-op) one or W3C trace context
Propagators == {"noop", "tracecontext"}

\* propagator.inject_context(&ctx, &mut trace_headers): name/value pairs
inject_context(prop, ctx) ==
    IF prop = "noop" \/ ctx = "none" THEN {}
    ELSE {<<"traceparent", IF ctx = "op" THEN "00-op" ELSE "00-caller">>}

RECURSIVE header_each(_, _)
\* for (key, value) in trace_headers { req_builder = req_builder.header(key, value) }
header_each(b, pairs) ==
    IF pairs = {} THEN b
    ELSE LET kv == CHOOSE x \in pairs : TRUE
         IN  header_each(header(b, kv[1], kv[2]), pairs \ {kv})

inject_trace_context(b, prop, ctx) == header_each(b, inject_context(prop, ctx))

Unset == [code |-> "Unset", description |-> ""]

\* utils::log_in_current_span: the active span's status becomes Error with
\* the error's text; without an active span nothing is set
log_in_current_span(e, ctx, spans) ==
    IF ctx = "none" THEN spans
    ELSE [spans EXCEPT ![ctx] = [code |-> "Error", description |-> e.kind]]

\* with_traced_errors that never reaches log_in_current_span
with_traced_errors_silent(r, ctx, spans) ==
    [result |-> r, spans |-> spans, logged |-> FALSE]

\* with_traced_errors that hands back the error wrapped in its description
with_traced_errors_wrapping(r, ctx, spans) ==
    IF r.ok THEN [result |-> Ok(r.value), spans |-> spans, logged |-> FALSE]
    ELSE [result |-> Err(ErrorOf("Traced")), spans |-> log_in_current_span(r.err, ctx, spans),
          logged |-> TRUE]

\* utils::Tracing::with_traced_errors for Result: the result and the spans after
with_traced_errors(r, ctx, spans) ==
    IF r.ok THEN [result |-> Ok(r.value), spans |-> spans, logged |-> FALSE]
    ELSE [result |-> Err(r.err), spans |-> log_in_current_span(r.err, ctx, spans),
          logged |-> TRUE]

\* utils::FutureTracing::with_traced_errors: the awaited output of the future
\* goes through the Result form
future_with_traced_errors(output, ctx, spans) == with_traced_errors(output, ctx, spans)

(* ------------------------------------------------------------------ *)
(* State                                                                *)
(* ------------------------------------------------------------------ *)

VARIABLES
    op,               \* the operation called
    configuration,    \* base_path, user_agent, headers
    propagator,       \* the global text map propagator
    ambient,          \* the context current around the call
    pc,               \* "idle", the statement to run next, or "done"
    uri,              \* the result of append_path
    req_builder,      \* the RequestBuilder
    req,              \* the request build() returned
    resp,             \* the response execute returned
    response_content, \* the JSON value resp.json() returned
    outcomes,         \* the values the call returned, in order
    executeCalls,     \* how often client.execute was called
    spanStatus,       \* the status of each span
    traced,           \* the applications of with_traced_errors, in order
    ctxLog,           \* the reads of the current context, in order
    stepLog           \* the statements run, in order

vars == <<op, configuration, propagator, ambient, pc, uri, req_builder, req, resp,
          response_content, outcomes, executeCalls, spanStatus, traced, ctxLog, stepLog>>

BaseUrls == {UrlParse(t) : t \in BaseTexts} \cup {OpaqueUrl}

Configurations == [base_path : BaseUrls, user_agent : UserAgents, headers : StaticHeaderMaps]

NoUri == [ok |-> FALSE, url |-> OpaqueUrl, err |-> ""]

NoBuilder == [ok |-> TRUE, method |-> "", url |-> OpaqueUrl, headers |-> EmptyHeaders,
              body |-> ""]

Init ==
    /\ op \in Ops
    /\ configuration \in Configurations
    /\ propagator \in Propagators
    /\ ambient \in AmbientContexts
    /\ pc = "idle"
    /\ uri = NoUri
    /\ req_builder = NoBuilder
    /\ req = NoBuilder
    /\ resp = NoValue
    /\ response_content = NoValue
    /\ outcomes = <<>>
    /\ executeCalls = 0
    /\ spanStatus = [s \in Spans |-> Unset]
    /\ traced = <<>>
    /\ ctxLog = <<>>
    /\ stepLog = <<>>

(* ------------------------------------------------------------------ *)
(* The context current while a statement of the async block runs.  The  *)
(* future in_span's closure returns is awaited after in_span has        *)
(* detached the operation's context, so the block runs in the caller's  *)
(* context except where with_context(ctx) wraps a future: the whole     *)
(* block in query_post, resp.json() alone in the other four.            *)
(* ------------------------------------------------------------------ *)

CurrentContext(o, stmt) ==
    IF o = "query_post" THEN "op"
    ELSE IF stmt = "json_body" THEN "op"
    ELSE ambient

(* ------------------------------------------------------------------ *)
(* Control flow                                                         *)
(* ------------------------------------------------------------------ *)

\* the statement completed: on to the next one
Continue == pc' = NextStmt(op, pc) /\ UNCHANGED outcomes

\* the ? operator without its early return: the error is recorded and the
\* block goes on
Propagate_and_go_on(e) == outcomes' = Append(outcomes, Err(e)) /\ pc' = NextStmt(op, pc)

\* the ? operator on an Err: the call returns it
Propagate(e) == outcomes' = Append(outcomes, Err(e)) /\ pc' = "done"

\* the block's final expression
Return(r) == outcomes' = Append(outcomes, r) /\ pc' = "done"

Ran == stepLog' = Append(stepLog, pc)

(* ------------------------------------------------------------------ *)
(* Statements                                                           *)
(* ------------------------------------------------------------------ *)

\* tracer.in_span(name, |ctx| async { ... }).await: the operation's span is
\* opened and the block starts
InSpan ==
    /\ pc = "idle"
    /\ pc' = Program(op)[1]
    /\ UNCHANGED <<op, configuration, propagator, ambient, uri, req_builder, req, resp,
                   response_content, outcomes, executeCalls, spanStatus, traced, ctxLog,
                   stepLog>>

\* AppendPath with the result of append_path left unchecked
AppendPath_unchecked ==
    /\ pc = "append_path"
    /\ uri' = append_path(configuration.base_path, Suffix(op))
    /\ pc' = NextStmt(op, pc)
    /\ stepLog' = Append(stepLog, pc)
    /\ UNCHANGED <<op, configuration, propagator, ambient, req_builder, req, resp,
                   response_content, outcomes, executeCalls, spanStatus, traced, ctxLog>>

\* let uri = append_path(&configuration.base_path, suffix).map_err(Error::ConnectorURLError)?
AppendPath ==
    /\ pc = "append_path"
    /\ uri' = append_path(configuration.base_path, Suffix(op))
    /\ IF uri'.ok THEN Continue ELSE Propagate(ErrorOf("ConnectorURLError"))
    /\ Ran
    /\ UNCHANGED <<op, configuration, propagator, ambient, req_builder, req, resp,
                   response_content, executeCalls, spanStatus, traced, ctxLog>>

\* let mut req_builder = client.request(method, uri)
Request ==
    /\ pc = "request"
    /\ req_builder' = [ok |-> TRUE, method |-> Method(op), url |-> uri.url,
                       headers |-> EmptyHeaders, body |-> ""]
    /\ Continue
    /\ Ran
    /\ UNCHANGED <<op, configuration, propagator, ambient, uri, req, resp,
                   response_content, executeCalls, spanStatus, traced, ctxLog>>

\* req_builder = inject_trace_context(req_builder)
InjectTraceContext ==
    /\ pc = "inject_trace_context"
    /\ LET ctx == CurrentContext(op, pc)
       IN  /\ req_builder' = inject_trace_context(req_builder, propagator, ctx)
           /\ ctxLog' = Append(ctxLog, [stmt |-> pc, ctx |-> ctx])
    /\ Continue
    /\ Ran
    /\ UNCHANGED <<op, configuration, propagator, ambient, uri, req, resp,
                   response_content, executeCalls, spanStatus, traced>>

\* if let Some(ref user_agent) = configuration.user_agent { req_builder.header(USER_AGENT, ..) }
UserAgent ==
    /\ pc = "user_agent"
    /\ req_builder' = IF configuration.user_agent # "None"
                      THEN header(req_builder, "user-agent", configuration.user_agent)
                      ELSE req_builder
    /\ Continue
    /\ Ran
    /\ UNCHANGED <<op, configuration, propagator, ambient, uri, req, resp,
                   response_content, executeCalls, spanStatus, traced, ctxLog>>

\* req_builder = req_builder.headers(configuration.headers.clone())
Headers ==
    /\ pc = "headers"
    /\ req_builder' = headers(req_builder, configuration.headers)
    /\ Continue
    /\ Ran
    /\ UNCHANGED <<op, configuration, propagator, ambient, uri, req, resp,
                   response_content, executeCalls, spanStatus, traced, ctxLog>>

\* req_builder = req_builder.json(&request)
Json ==
    /\ pc = "json"
    /\ req_builder' = json(req_builder, RequestType(op))
    /\ Continue
    /\ Ran
    /\ UNCHANGED <<op, configuration, propagator, ambient, uri, req, resp,
                   response_content, executeCalls, spanStatus, traced, ctxLog>>

\* let req = req_builder.build()?
Build ==
    /\ pc = "build"
    /\ IF req_builder.ok
       THEN req' = req_builder /\ Continue
       ELSE Propagate(ErrorOf("Reqwest(builder)")) /\ UNCHANGED req
    /\ Ran
    /\ UNCHANGED <<op, configuration, propagator, ambient, uri, req_builder, resp,
                   response_content, executeCalls, spanStatus, traced, ctxLog>>

\* let resp = client.execute(req).with_traced_errors().await?
Execute ==
    /\ pc = "execute"
    /\ executeCalls' = executeCalls + 1
    /\ \E output \in TransportResults :
         LET ctx == CurrentContext(op, pc)
             t   == future_with_traced_errors(output, ctx, spanStatus)
         IN  /\ spanStatus' = t.spans
             /\ traced' = Append(traced, [stmt |-> pc, ctx |-> ctx, input |-> output,
                                          output |-> t.result, before |-> spanStatus,
                                          after |-> t.spans, logged |-> t.logged])
             /\ ctxLog' = IF t.logged THEN Append(ctxLog, [stmt |-> pc, ctx |-> ctx])
                          ELSE ctxLog
             /\ IF t.result.ok
                THEN resp' = t.result.value /\ Continue
                ELSE Propagate(t.result.err) /\ UNCHANGED resp
    /\ Ran
    /\ UNCHANGED <<op, configuration, propagator, ambient, uri, req_builder, req,
                   response_content>>

\* let response_status = resp.status();
\* let response_content = resp.json().with_traced_errors()[.with_context(ctx)].await?
JsonBody ==
    /\ pc = "json_body"
    /\ LET ctx == CurrentContext(op, pc)
           t   == future_with_traced_errors(resp_json(resp), ctx, spanStatus)
       IN  /\ spanStatus' = t.spans
           /\ traced' = Append(traced, [stmt |-> pc, ctx |-> ctx, input |-> resp_json(resp),
                                        output |-> t.result, before |-> spanStatus,
                                        after |-> t.spans, logged |-> t.logged])
           /\ ctxLog' = IF t.logged THEN Append(ctxLog, [stmt |-> pc, ctx |-> ctx])
                        ELSE ctxLog
           /\ IF t.result.ok
              THEN response_content' = t.result.value /\ Continue
              ELSE Propagate(t.result.err) /\ UNCHANGED response_content
    /\ Ran
    /\ UNCHANGED <<op, configuration, propagator, ambient, uri, req_builder, req, resp,
                   executeCalls>>

\* the if/else on response_status that ends the block
Classify ==
    /\ pc = "classify"
    /\ IF ~is_client_error(resp.status) /\ ~is_server_error(resp.status)
       THEN Return(from_value(response_content, ResponseType(op)))
       ELSE LET error_response == from_value(response_content, "ErrorResponse")
            IN  IF error_response.ok
                THEN Return(Err(ConnectorError(resp.status, error_response.value)))
                ELSE Propagate(error_response.err)
    /\ Ran
    /\ UNCHANGED <<op, configuration, propagator, ambient, uri, req_builder, req, resp,
                   response_content, executeCalls, spanStatus, traced, ctxLog>>

Next ==
    \/ InSpan
    \/ AppendPath
    \/ Request
    \/ InjectTraceContext
    \/ UserAgent
    \/ Headers
    \/ Json
    \/ Build
    \/ Execute
    \/ JsonBody
    \/ Classify

Spec == Init /\ [][Next]_vars

(* ------------------------------------------------------------------ *)
(* Properties                                                           *)
(* ------------------------------------------------------------------ *)

Range(seq) == {seq[i] : i \in DOMAIN seq}

Done == pc = "done"

\* the call ran its classification statement
Classified == Done /\ "classify" \in Range(stepLog)

\* the body the transport delivered fits the given type
BodyFits(type) ==
    IF type = "ErrorResponse" THEN resp.kind \in {"envelope", "both"}
    ELSE resp.kind \in {"success", "both"}

\* C1: once a response is classified, the status alone decides the side: a
\* status in 400..599 gives no success value but a Connector Error with that
\* status and the decoded envelope, or a decode error when the body is no
\* envelope; any other status gives no Connector Error but the success
\* value, or a decode error when the body is not of the success type.
ClassificationTotal ==
    Classified =>
        LET o == outcomes[1]
        IN  IF resp.status \in 400..599
            THEN /\ ~o.ok
                 /\ IF BodyFits("ErrorResponse")
                    THEN o.err = [kind |-> "ConnectorError", status |-> resp.status,
                                  error_response |-> [type |-> "ErrorResponse", status |-> 0,
                                                      kind |-> resp.kind,
                                                      payload |-> resp.payload]]
                    ELSE o.err.kind = "Serde"
            ELSE /\ o.err.kind # "ConnectorError"
                 /\ IF BodyFits(ResponseType(op))
                    THEN /\ o.ok
                         /\ o.value = [type |-> ResponseType(op), status |-> 0,
                                       kind |-> resp.kind, payload |-> resp.payload]
                    ELSE ~o.ok /\ o.err.kind = "Serde"

\* a 500 response with an envelope body became a Connector Error
ClassifiedWitness ==
    /\ Classified
    /\ resp.status = 500
    /\ resp.kind = "both"
    /\ outcomes[1].err.kind = "ConnectorError"

\* C4: when append_path has failed, the call is over with the endpoint
\* resolution error and execute was not called; execute is never called
\* more than once.
NoNetworkOnResolutionFailure ==
    /\ executeCalls <= 1
    /\ ("append_path" \in Range(stepLog) /\ ~uri.ok) =>
          /\ executeCalls = 0
          /\ Done
          /\ outcomes = <<Err(ErrorOf("ConnectorURLError"))>>
          /\ stepLog = <<"append_path">>

ResolutionFailureWitness ==
    /\ configuration.base_path.opaque
    /\ Done
    /\ ~uri.ok
    /\ executeCalls = 0

NoTrailingSlash(text) == text = <<>> \/ text[Len(text)] # "/"

\* C5: for a hierarchical base written B without a trailing slash, the
\* resolved URL is B, "/", the suffix, whether the configured base was B or
\* B followed by "/", and append_path gives that same URL for both.
AppendPathTrailingSlashInsensitive ==
    ("append_path" \in Range(stepLog) /\ ~configuration.base_path.opaque) =>
        \A B \in BaseTexts :
            (/\ NoTrailingSlash(B)
             /\ configuration.base_path \in {UrlParse(B), UrlParse(B \o <<"/">>)}) =>
                /\ uri.ok
                /\ UrlText(uri.url) = B \o <<"/">> \o Suffix(op)
                /\ append_path(UrlParse(B), Suffix(op)) = uri
                /\ append_path(UrlParse(B \o <<"/">>), Suffix(op)) = uri

\* a base with a sub-path and no trailing slash was resolved
AppendPathWitness ==
    /\ "append_path" \in Range(stepLog)
    /\ configuration.base_path = UrlParse(<<"/", "a">>)
    /\ UrlText(uri.url) = <<"/", "a", "/">> \o Suffix(op)

ErrorKinds == {"ConnectorURLError", "Reqwest(builder)", "Reqwest(transport)",
               "Reqwest(decode)", "Serde", "ConnectorError"}

\* C6: a call that is over has returned exactly one value, which is either a
\* success value or one error; a call that is not over has returned nothing
\* and can take a step; a 4xx/5xx response never gives a success value.
ExactlyOneOutcome ==
    /\ Len(outcomes) <= 1
    /\ Done <=> Len(outcomes) = 1
    /\ ~Done => ENABLED Next
    /\ Done =>
          LET o == outcomes[1]
          IN  /\ o.ok => (o.err = NoError /\ o.value.type = ResponseType(op))
              /\ ~o.ok => (o.value = NoValue /\ o.err.kind \in ErrorKinds)
              /\ (o.ok /\ "execute" \in Range(stepLog)) => resp.status \notin 400..599
              /\ o.ok => "classify" \in Range(stepLog)

\* a call ended by a failure before its last statement
OneOutcomeWitness ==
    /\ Done
    /\ Len(outcomes) = 1
    /\ outcomes[1].err.kind = "Reqwest(decode)"
    /\ "classify" \notin Range(stepLog)

\* C7: with_traced_errors returns what it was given, failure or success; on
\* a success, or without an active span, no span status changes; on a
\* failure with an active span only that span's status changes.
ObserverPassThrough ==
    \A i \in DOMAIN traced :
        LET t == traced[i]
        IN  /\ t.output = t.input
            /\ t.input.ok => t.after = t.before
            /\ t.ctx = "none" => t.after = t.before
            /\ (~t.input.ok /\ t.ctx # "none") =>
                  /\ t.after[t.ctx] = [code |-> "Error", description |-> t.input.err.kind]
                  /\ \A sp \in Spans \ {t.ctx} : t.after[sp] = t.before[sp]

\* a success passed through first and a failure, with a span active, second
ObserverWitness ==
    /\ Len(traced) = 2
    /\ traced[1].input.ok
    /\ ~traced[2].input.ok
    /\ traced[2].ctx = "op"
    /\ spanStatus["op"].code = "Error"

\* the applications of with_traced_errors that reached log_in_current_span
Logged == {i \in DOMAIN traced : traced[i].logged}

\* C2 as stated: a call that returns an error has reported that error to
\* the Error Observer exactly once.
EveryErrorTracedOnce ==
    (Done /\ ~outcomes[1].ok) =>
        /\ Cardinality(Logged) = 1
        /\ \A i \in Logged : traced[i].input.err = outcomes[1].err

\* C2 amended: the transport error of execute and the JSON decode error of
\* resp.json() are reported to the Error Observer exactly once, in the step
\* that returns them; an endpoint resolution error, a request build error, a
\* body that does not fit the success type or the envelope, and a Connector
\* Error are returned without any report; a success reports nothing.
OnlyExchangeErrorsTraced ==
    /\ ~Done => Logged = {}
    /\ Done =>
          LET o == outcomes[1]
          IN  IF ~o.ok /\ o.err.kind \in {"Reqwest(transport)", "Reqwest(decode)"}
              THEN /\ Cardinality(Logged) = 1
                   /\ Logged = {Len(traced)}
                   /\ traced[Len(traced)].input.err = o.err
                   /\ traced[Len(traced)].stmt = stepLog[Len(stepLog)]
              ELSE Logged = {}

\* a transport failure was reported once and returned
TracedErrorWitness ==
    /\ Done
    /\ outcomes[1].err.kind = "Reqwest(transport)"
    /\ Cardinality(Logged) = 1
    /\ traced[1].ctx = "caller"

Contains(values, v) == \E i \in DOMAIN values : values[i] = v

IsPrefix(p, q) == Len(p) <= Len(q) /\ SubSeq(q, 1, Len(p)) = p

\* every static header is in the request with its configured values
StaticHeadersSent ==
    \A n \in HeaderNames :
        configuration.headers[n] # <<>> => IsPrefix(configuration.headers[n], req.headers[n])

\* C3 as stated: the request handed to execute carries the configured
\* user-agent value under User-Agent whenever one is configured, and every
\* static header with its configured values, whatever the static headers
\* are named.
HeadersComplete ==
    executeCalls > 0 =>
        /\ configuration.user_agent # "None" =>
              Contains(req.headers["user-agent"], configuration.user_agent)
        /\ StaticHeadersSent

\* C3 amended: the request handed to execute carries every static header
\* with its configured values, and the configured user-agent value under
\* User-Agent whenever one is configured and no static header is named
\* User-Agent; a static header of that name takes the place of the
\* configured user-agent value.
HeadersCompleteUnlessStaticUserAgent ==
    executeCalls > 0 =>
        /\ StaticHeadersSent
        /\ IF configuration.headers["user-agent"] # <<>>
           THEN req.headers["user-agent"] = configuration.headers["user-agent"]
           ELSE IF configuration.user_agent # "None"
           THEN req.headers["user-agent"] = <<configuration.user_agent>>
           ELSE req.headers["user-agent"] = <<>>

\* a POST request went out with a user-agent, a static header named like the
\* trace header, and an active trace context
HeadersWitness ==
    /\ executeCalls > 0
    /\ op = "query_post"
    /\ propagator = "tracecontext"
    /\ configuration.user_agent = "ndc-client/1"
    /\ configuration.headers["traceparent"] # <<>>
    /\ configuration.headers["user-agent"] = <<>>
    /\ Contains(req.headers["user-agent"], "ndc-client/1")

\* the order of section 4.4: resolve, build the request, trace headers,
\* user-agent, static headers, JSON payload (POST only), execute, read and
\* decode the body, classify
Section44Order(o) ==
    <<"append_path", "request", "inject_trace_context", "user_agent", "headers">>
    \o (IF o \in GetOps THEN <<>> ELSE <<"json">>)
    \o <<"execute", "json_body", "classify">>

IsStep44(s) == s # "build"

\* C8 as stated: the steps every operation has run so far are the first
\* steps of the section 4.4 order.
StepsInSection44Order ==
    IsPrefix(SelectSeq(stepLog, IsStep44), Section44Order(op))

\* the context inject_trace_context read in this call
InjectedPairs ==
    UNION {inject_context(propagator, ctxLog[i].ctx) :
             i \in {j \in DOMAIN ctxLog : ctxLog[j].stmt = "inject_trace_context"}}

\* C9 as stated: in the request handed to execute, a name that both the
\* injector and the static headers set carries the static values only.
StaticHeaderWinsOverTrace ==
    executeCalls > 0 =>
        \A kv \in InjectedPairs :
            configuration.headers[kv[1]] # <<>> =>
                /\ req.headers[kv[1]] = configuration.headers[kv[1]]
                /\ ~Contains(req.headers[kv[1]], kv[2])

\* C10 as stated: every read of the current context in a call, by
\* inject_trace_context and by the Error Observer, finds the span the
\* operation opened.
SameSpanAtEveryTracingStep ==
    \A i \in DOMAIN ctxLog : ctxLog[i].ctx = "op"

====
